---------------------------- MODULE Spec2Model ----------------------------
(***************************************************************************)
(* PortRooter (src/src/main.rs): a reverse proxy that serves several local *)
(* backends under /proxy/<name>/ and rewrites headers and bodies.          *)
(*                                                                         *)
(* Strings are TLA+ strings; TLC evaluates Len, SubSeq and \o on them, so  *)
(* every str operation of the source (find, contains, starts_with,         *)
(* replace, slicing) is computed character by character as Rust does.      *)
(* Positions are 1-based; a search that finds nothing yields 0 where Rust  *)
(* yields None.                                                            *)
(***************************************************************************)
EXTENDS Integers, Sequences, FiniteSets, TLC

VARIABLES
    pc,        \* per request: where its handler task stands
    req,       \* per request: the inbound request (method, path, query, headers)
    handler,   \* per request: the route the router dispatched it to
    upstream,  \* per request: the outbound request handed to the client, or None
    attempts,  \* per request: number of calls of state.client.request
    backend,   \* per request: what the backend did with the upstream request
    resp,      \* per request: the response returned to the client, or None
    rw         \* the body-rewrite bench: one body taken through a pass twice

vars == <<pc, req, handler, upstream, attempts, backend, resp, rw>>

None == "<none>"

(***************************************************************************)
(* str primitives                                                          *)
(***************************************************************************)
CharAt(s, i) == SubSeq(s, i, i)

SubStr(s, i) == SubSeq(s, i, Len(s))

StartsWith(s, p) == Len(p) <= Len(s) /\ SubSeq(s, 1, Len(p)) = p

EndsWith(s, p) == Len(p) <= Len(s) /\ SubSeq(s, Len(s) - Len(p) + 1, Len(s)) = p

\* str::find: position of the first occurrence of p in s, 0 when there is none
Find(s, p) ==
    LET hits == {i \in 1..(Len(s) - Len(p) + 1) : SubSeq(s, i, i + Len(p) - 1) = p}
    IN  IF hits = {} THEN 0
        ELSE CHOOSE i \in hits : \A j \in hits : i <= j

Contains(s, p) == Find(s, p) # 0

\* str::replace: every non-overlapping occurrence, left to right; the
\* replacement text is not scanned again.  acc is the output built so far,
\* s the input still to scan.
RECURSIVE ReplaceFrom(_, _, _, _)
ReplaceFrom(s, from, to, acc) ==
    LET i == Find(s, from)
    IN  IF i = 0 THEN acc \o s
        ELSE LET rest == SubStr(s, i + Len(from))
                 done == acc \o SubSeq(s, 1, i - 1) \o to
             IN  IF rest = rest /\ done = done
                 THEN ReplaceFrom(rest, from, to, done)
                 ELSE s

Replace(s, from, to) == ReplaceFrom(s, from, to, "")

(***************************************************************************)
(* Percent-encoding (crates urlencoding and percent-encoding, as called    *)
(* from main.rs).  Ascii lists the printable characters 0x20..0x7E in code *)
(* order; the tab stands where the grave accent (0x60) would be, which no  *)
(* input of the model contains.                                            *)
(***************************************************************************)
Ascii == " !\"#$%&'()*+,-./0123456789:;<=>?@ABCDEFGHIJKLMNOPQRSTUVWXYZ[\\]^_\tabcdefghijklmnopqrstuvwxyz{|}~"

CodeOf(c) == Find(Ascii, c) + 31

CharOf(b) == CharAt(Ascii, b - 31)

HexUpper == "0123456789ABCDEF"

HexLower == "0123456789abcdef"

IsHexDigit(c) == Len(c) = 1 /\ (Contains(HexUpper, c) \/ Contains(HexLower, c))

HexVal(c) == IF Contains(HexUpper, c) THEN Find(HexUpper, c) - 1 ELSE Find(HexLower, c) - 1

HexByte(b) == "%" \o CharAt(HexUpper, (b \div 16) + 1) \o CharAt(HexUpper, (b % 16) + 1)

Unreserved == "ABCDEFGHIJKLMNOPQRSTUVWXYZabcdefghijklmnopqrstuvwxyz0123456789-_.~"

\* urlencoding::encode: unreserved characters stay, every other byte becomes
\* %XX in upper-case hex
RECURSIVE UrlEncode(_)
UrlEncode(s) ==
    IF s = "" THEN ""
    ELSE LET c == CharAt(s, 1)
         IN  (IF Contains(Unreserved, c) THEN c ELSE HexByte(CodeOf(c)))
             \o UrlEncode(SubStr(s, 2))

\* The bytes a percent-encoded string decodes to: %XY with two hex digits is
\* one byte, any other character (a % without two hex digits included) is
\* kept as it stands.
RECURSIVE DecodeBytes(_)
DecodeBytes(s) ==
    IF s = "" THEN << >>
    ELSE IF CharAt(s, 1) = "%" /\ Len(s) >= 3
            /\ IsHexDigit(CharAt(s, 2)) /\ IsHexDigit(CharAt(s, 3))
         THEN <<16 * HexVal(CharAt(s, 2)) + HexVal(CharAt(s, 3))>>
                  \o DecodeBytes(SubStr(s, 4))
         ELSE <<CodeOf(CharAt(s, 1))>> \o DecodeBytes(SubStr(s, 2))

RECURSIVE BytesToStr(_)
BytesToStr(bs) == IF bs = << >> THEN "" ELSE CharOf(Head(bs)) \o BytesToStr(Tail(bs))

\* String::from_utf8 on the decoded bytes.  The inputs of the model hold
\* ASCII and lone bytes >= 0x80 only; a lone byte >= 0x80 is never UTF-8.
DecodeUtf8(s) ==
    LET bs == DecodeBytes(s)
    IN  IF \E i \in 1..Len(bs) : bs[i] >= 128
        THEN [ok |-> FALSE, val |-> ""]
        ELSE [ok |-> TRUE, val |-> BytesToStr(bs)]

\* urlencoding::decode(..).ok(): Some(name) or None
UrlDecode(s) == DecodeUtf8(s)

(***************************************************************************)
(* Config and AppState: loaded once in main, never written afterwards.     *)
(***************************************************************************)
Config ==
    [router_port |-> 3000,
     targets |-> << [name |-> "a", port |-> 4000, description |-> "first"],
                    [name |-> "b!", port |-> 5000, description |-> "second"] >>]

Targets == Config.targets

TargetIdx == 1..Len(Targets)

\* state.config.targets.iter().find(|t| t.name == name): the index of the
\* first match, 0 for None
FindTarget(name) ==
    LET hits == {i \in TargetIdx : Targets[i].name = name}
    IN  IF hits = {} THEN 0
        ELSE CHOOSE i \in hits : \A j \in hits : i <= j

\* state.config.targets.first().map(|t| t.name.clone())
FirstTargetName == IF Len(Targets) = 0 THEN None ELSE Targets[1].name

(***************************************************************************)
(* Body rewriting (proxy_handler lines 638-810, fallback_handler 382-438).  *)
(* A body is a string; "\f" stands for one byte that is not valid UTF-8    *)
(* and "\r" for U+FFFD, the character from_utf8_lossy puts in its place.   *)
(***************************************************************************)
InvalidByte == "\f"

ReplacementChar == "\r"

\* String::from_utf8_lossy(&body_bytes)
FromUtf8Lossy(bytes) == Replace(bytes, InvalidByte, ReplacementChar)

\* format!("/proxy/{}", urlencoding::encode(&target.name))
ProxyPrefix(name) == "/proxy/" \o UrlEncode(name)

\* mutant: only the first occurrence of the pattern gets the prefix
InsertPrefix_FirstOnly(content, pat, name) ==
    LET i == Find(content, pat \o "/")
    IN  IF i = 0 THEN content
        ELSE SubSeq(content, 1, i + Len(pat) - 1) \o ProxyPrefix(name)
                 \o SubStr(content, i + Len(pat))

\* content.replace("<pat>/", &format!("<pat>{}/", proxy_prefix))
InsertPrefix(content, pat, name) ==
    Replace(content, pat \o "/", pat \o ProxyPrefix(name) \o "/")

\* mutant: the repair is left out
RepairDouble_Skipped(content, pat, name) == content

\* content.replace(&format!("<pat>{}/proxy/", proxy_prefix), "<pat>/proxy/")
RepairDouble(content, pat, name) ==
    Replace(content, pat \o ProxyPrefix(name) \o "/proxy/", pat \o "/proxy/")

\* TLC evaluates an operator's argument where it is first used; Evaluated(v)
\* uses v, so that a chain of replace calls is computed one call at a time.
Evaluated(v) == v = v

\* the insertions of one group of patterns, in source order
RECURSIVE InsertAll(_, _, _)
InsertAll(content, pats, name) ==
    IF pats = << >> THEN content
    ELSE LET c == InsertPrefix(content, Head(pats), name)
         IN  IF Evaluated(c) THEN InsertAll(c, Tail(pats), name) ELSE c

\* the repairs of one group of patterns, in source order
RECURSIVE RepairAll(_, _, _)
RepairAll(content, pats, name) ==
    IF pats = << >> THEN content
    ELSE LET c == RepairDouble(content, Head(pats), name)
         IN  IF Evaluated(c) THEN RepairAll(c, Tail(pats), name) ELSE c

\* the literal patterns, each without its final "/", in source order
HtmlAttrPatterns == << "src=\"", "href=\"", "src='", "href='" >>

HtmlFetchPatterns == << "fetch('", "fetch(\"" >>

HtmlXhrPatterns ==
    << ".open('GET', '", ".open('POST', '", ".open(\"GET\", \"", ".open(\"POST\", \"" >>

CssPatterns == << "url('", "url(\"", "url(", "@import '", "@import \"" >>

JsPatterns == << "from '", "from \"", "import('", "import(\"" >>

\* format!("<base href=\"{}\">", base_url) with base_url = "/proxy/<enc>/"
BaseTag(name) == "<base href=\"/proxy/" \o UrlEncode(name) \o "/\">"

\* lines 645-663: the <base> element goes after the first <head>, else after
\* the first <HEAD>, else in a new head element after the first <html...>
InsertBase(html, name) ==
    LET h1 == Find(html, "<head>")
        h2 == Find(html, "<HEAD>")
        h3 == Find(html, "<html")
    IN  IF h1 # 0
        THEN SubSeq(html, 1, h1 + 5) \o BaseTag(name) \o SubStr(html, h1 + 6)
        ELSE IF h2 # 0
        THEN SubSeq(html, 1, h2 + 5) \o BaseTag(name) \o SubStr(html, h2 + 6)
        ELSE IF h3 # 0
        THEN LET e == Find(SubStr(html, h3), ">")
             IN  IF e # 0
                 THEN SubSeq(html, 1, h3 + e - 1) \o "<head>" \o BaseTag(name)
                          \o "</head>" \o SubStr(html, h3 + e)
                 ELSE html
        ELSE html

\* lines 667-672 and 674-679: cut the first element that opens with `open`,
\* up to and including the next ">"
RemoveFirstElement(html, open) ==
    LET start == Find(html, open)
    IN  IF start = 0 THEN html
        ELSE LET e == Find(SubStr(html, start), ">")
             IN  IF e = 0 THEN html
                 ELSE SubSeq(html, 1, start - 1) \o SubStr(html, start + e)

RemoveCspMeta(html) ==
    RemoveFirstElement(
        RemoveFirstElement(html, "<meta http-equiv=\"Content-Security-Policy\""),
        "<meta http-equiv='Content-Security-Policy'")

\* lines 683-715: attribute patterns, then fetch, then XMLHttpRequest.open,
\* each insertion followed by its own repair
HtmlRewritePaths(html, name) ==
    LET a == RepairAll(InsertAll(html, HtmlAttrPatterns, name), HtmlAttrPatterns, name)
        f == RepairAll(InsertAll(a, HtmlFetchPatterns, name), HtmlFetchPatterns, name)
    IN  IF Evaluated(a) /\ Evaluated(f)
        THEN RepairAll(InsertAll(f, HtmlXhrPatterns, name), HtmlXhrPatterns, name)
        ELSE html

\* the whole HTML branch on the collected body, lines 638-715
HtmlRewrite(bytes, name) ==
    LET based == InsertBase(FromUtf8Lossy(bytes), name)
        clean == RemoveCspMeta(based)
    IN  IF Evaluated(based) /\ Evaluated(clean) THEN HtmlRewritePaths(clean, name) ELSE bytes

\* the CSS branch, lines 744-760 (and 424-438)
CssRewrite(bytes, name) ==
    RepairAll(InsertAll(FromUtf8Lossy(bytes), CssPatterns, name), CssPatterns, name)

\* request_path.contains("/node_modules/.vite/deps/")
IsViteDeps(request_path) == Contains(request_path, "/node_modules/.vite/deps/")

\* the JS branch, lines 789-810 (and 382-402)
JsRewrite(bytes, name, request_path) ==
    LET content == FromUtf8Lossy(bytes)
    IN  IF IsViteDeps(request_path) THEN content
        ELSE RepairAll(InsertAll(content, JsPatterns, name), JsPatterns, name)

\* the body a rewrite class returns for a collected body
RewriteBody(class, bytes, name, request_path) ==
    CASE class = "html" -> HtmlRewrite(bytes, name)
      [] class = "css"  -> CssRewrite(bytes, name)
      [] class = "js"   -> JsRewrite(bytes, name, request_path)
      [] OTHER          -> bytes

(***************************************************************************)
(* Requests, headers and the route table (main, lines 60-65).              *)
(***************************************************************************)
Methods == {"GET", "POST", "PUT", "DELETE", "PATCH"}

ReqHeaderNames ==
    {"host", "accept-encoding", "origin", "referer", "cookie",
     "x-forwarded-for", "x-forwarded-proto", "x-forwarded-host"}

RespHeaderNames ==
    {"content-type", "content-length", "cache-control",
     "content-security-policy", "content-security-policy-report-only",
     "cross-origin-resource-policy"}

\* a header map without entries (Response::builder() starts from one)
NoHeaders == [n \in RespHeaderNames |-> None]

\* .route("/", get(show_selector))
SelectorMethods == {"GET"}

\* .route("/proxy/:target_name", get(proxy_handler).post(proxy_handler))
ProxyNameMethods == {"GET", "POST"}

\* .route("/proxy/:target_name/*path", get(..).post(..).put(..).delete(..).patch(..))
ProxyPathMethods == {"GET", "POST", "PUT", "DELETE", "PATCH"}

\* .fallback(get(..).post(..).put(..).delete(..).patch(..))
FallbackMethods == {"GET", "POST", "PUT", "DELETE", "PATCH"}

\* The route a path matches and the raw (still encoded) captures.  A
\* :param captures one non-empty segment, *path a non-empty remainder;
\* whatever matches no route goes to the fallback.
MatchRoute(path) ==
    LET rest == SubStr(path, Len("/proxy/") + 1)
        k == Find(rest, "/")
    IN  IF path = "/"
        THEN [route |-> "selector", target_name |-> "", path |-> ""]
        ELSE IF StartsWith(path, "/proxy/") /\ rest # "" /\ k = 0
        THEN [route |-> "proxy_name", target_name |-> rest, path |-> ""]
        ELSE IF StartsWith(path, "/proxy/") /\ k > 1 /\ k < Len(rest)
        THEN [route |-> "proxy_path", target_name |-> SubSeq(rest, 1, k - 1),
              path |-> SubStr(rest, k + 1)]
        ELSE [route |-> "fallback", target_name |-> "", path |-> ""]

RouteMethods(route) ==
    CASE route = "selector"   -> SelectorMethods
      [] route = "proxy_name" -> ProxyNameMethods
      [] route = "proxy_path" -> ProxyPathMethods
      [] OTHER                -> FallbackMethods

\* Path(params): Path<HashMap<String, String>> (line 461).  The extractor
\* percent-decodes every capture; a capture that is not UTF-8 after decoding
\* rejects the request before the handler body runs.
PathParams(m) ==
    LET n == DecodeUtf8(m.target_name)
        p == DecodeUtf8(m.path)
    IN  [ok |-> n.ok /\ p.ok, target_name |-> n.val]

(***************************************************************************)
(* Request transformation, shared by both handlers.                        *)
(***************************************************************************)
\* req.uri().query().map(|q| format!("?{}", q)).unwrap_or_default()
QueryString(query) == IF query = None THEN "" ELSE "?" \o query

\* format!("http://localhost:{}{}{}", target.port, path, query)
ProxyUri(port, path, query) ==
    "http://localhost:" \o ToString(port) \o path \o QueryString(query)

\* lines 474-484: the path left after /proxy/<encoded target name>
ProxyStrippedPath(request_path, target_name) ==
    LET prefix == "/proxy/" \o UrlEncode(target_name)
    IN  IF StartsWith(request_path, prefix)
        THEN LET remaining == SubStr(request_path, Len(prefix) + 1)
             IN  IF remaining = "" THEN "/" ELSE remaining
        ELSE "/"

\* referer.parse::<http::Uri>() and path_and_query().map(as_str).unwrap_or(""):
\* ok is whether the value parses, pq the text the new Referer ends with
UriPathAndQuery(s) ==
    LET noFrag == IF Contains(s, "#") THEN SubSeq(s, 1, Find(s, "#") - 1) ELSE s
        sep == Find(noFrag, "://")
        after == SubStr(noFrag, sep + 3)
        slash == Find(after, "/")
    IN  IF s = "" \/ Contains(s, " ") THEN [ok |-> FALSE, pq |-> ""]
        ELSE IF StartsWith(noFrag, "/") THEN [ok |-> TRUE, pq |-> noFrag]
        ELSE IF sep = 0 THEN [ok |-> TRUE, pq |-> ""]
        ELSE IF after = "" \/ slash = 1 THEN [ok |-> FALSE, pq |-> ""]
        ELSE IF slash = 0 THEN [ok |-> TRUE, pq |-> "/"]
        ELSE [ok |-> TRUE, pq |-> SubStr(after, slash)]

\* lines 496-500: the inbound Host, "localhost" when there is none
OriginalHost(headers) == IF headers["host"] = None THEN "localhost" ELSE headers["host"]

\* mutant: the loopback address is appended to an inbound X-Forwarded-For
TransformHeaders_AppendsForwardedFor(headers, port) ==
    LET authority == "localhost:" \o ToString(port)
        ref == UriPathAndQuery(headers["referer"])
    IN  [n \in ReqHeaderNames |->
            CASE n = "accept-encoding"   -> None
              [] n = "host"              -> authority
              [] n = "x-forwarded-for"   ->
                    IF headers[n] = None THEN "127.0.0.1" ELSE headers[n] \o ", 127.0.0.1"
              [] n = "x-forwarded-proto" -> "http"
              [] n = "x-forwarded-host"  -> OriginalHost(headers)
              [] n = "origin" ->
                    IF headers["origin"] # None THEN "http://" \o authority ELSE None
              [] n = "referer" ->
                    IF headers["referer"] # None /\ ref.ok
                    THEN "http://" \o authority \o ref.pq
                    ELSE headers["referer"]
              [] OTHER -> headers[n]]

\* lines 505-558 (and 260-310): the header mutations for a target port
TransformHeaders(headers, port) ==
    LET authority == "localhost:" \o ToString(port)
        ref == UriPathAndQuery(headers["referer"])
    IN  [n \in ReqHeaderNames |->
            CASE n = "accept-encoding"   -> None
              [] n = "host"              -> authority
              [] n = "x-forwarded-for"   -> "127.0.0.1"
              [] n = "x-forwarded-proto" -> "http"
              [] n = "x-forwarded-host"  -> OriginalHost(headers)
              [] n = "origin" ->
                    IF headers["origin"] # None THEN "http://" \o authority ELSE None
              [] n = "referer" ->
                    IF headers["referer"] # None /\ ref.ok
                    THEN "http://" \o authority \o ref.pq
                    ELSE headers["referer"]
              [] OTHER -> headers[n]]

NoUpstream == [method |-> None, uri |-> None, target |-> 0,
               headers |-> [n \in ReqHeaderNames |-> None]]

\* proxy_handler up to the call of the client, lines 464-558: the outbound
\* request for target t
ProxyOutbound(request, t) ==
    [method |-> request.method,
     uri |-> ProxyUri(Targets[t].port,
                      ProxyStrippedPath(request.path, Targets[t].name), request.query),
     target |-> t,
     headers |-> TransformHeaders(request.headers, Targets[t].port)]

\* fallback_handler, lines 239-310: the request path is used as it stands
FallbackOutbound(request, t) ==
    [method |-> request.method,
     uri |-> ProxyUri(Targets[t].port, request.path, request.query),
     target |-> t,
     headers |-> TransformHeaders(request.headers, Targets[t].port)]

\* format!(":{}", state.config.router_port)
RouterPortMark == ":" \o ToString(Config.router_port)

\* fallback_handler, lines 200-234: the target name taken from Referer and
\* Origin; some = FALSE is None
FallbackTargetName(headers) ==
    LET referer == IF headers["referer"] = None THEN "" ELSE headers["referer"]
        origin == IF headers["origin"] = None THEN "" ELSE headers["origin"]
        proxy_pos == Find(referer, "/proxy/")
        remaining == SubStr(referer, proxy_pos + Len("/proxy/"))
        slash_pos == Find(remaining, "/")
        decoded == IF slash_pos # 0
                   THEN UrlDecode(SubSeq(remaining, 1, slash_pos - 1))
                   ELSE UrlDecode(remaining)
    IN  IF proxy_pos # 0
        THEN [some |-> decoded.ok, val |-> decoded.val]
        ELSE IF Contains(origin, RouterPortMark) \/ Contains(referer, RouterPortMark)
        THEN [some |-> FirstTargetName # None, val |-> FirstTargetName]
        ELSE [some |-> FALSE, val |-> ""]

\* lines 236-238: the target the fallback forwards to, 0 for none
FallbackTarget(headers) ==
    LET n == FallbackTargetName(headers)
    IN  IF n.some THEN FindTarget(n.val) ELSE 0

(***************************************************************************)
(* Response transformation.                                                *)
(***************************************************************************)
\* mutant: the report-only policy header is left in place
StripHeaders_KeepsReportOnly(headers) ==
    [n \in RespHeaderNames |->
        CASE n = "content-security-policy" -> None
          [] n = "cross-origin-resource-policy" ->
                IF headers[n] = None THEN "cross-origin" ELSE headers[n]
          [] OTHER -> headers[n]]

\* lines 602-613 (and 344-354): CSP headers removed, CORP defaulted
StripHeaders(headers) ==
    [n \in RespHeaderNames |->
        CASE n = "content-security-policy" -> None
          [] n = "content-security-policy-report-only" -> None
          [] n = "cross-origin-resource-policy" ->
                IF headers[n] = None THEN "cross-origin" ELSE headers[n]
          [] OTHER -> headers[n]]

\* response.headers_mut().remove(header::CONTENT_LENGTH)
RemoveContentLength(headers) == [headers EXCEPT !["content-length"] = None]

\* parts.headers.get(CONTENT_TYPE).and_then(|v| v.to_str().ok()).unwrap_or("")
ContentType(headers) ==
    IF headers["content-type"] = None THEN "" ELSE headers["content-type"]

\* the condition of the JS branch, lines 769-773 (and 364-368)
IsJs(content_type, request_path) ==
    \/ Contains(content_type, "javascript") \/ Contains(content_type, "typescript")
    \/ EndsWith(request_path, ".js") \/ EndsWith(request_path, ".mjs")
    \/ EndsWith(request_path, ".ts") \/ EndsWith(request_path, ".tsx")
    \/ Contains(request_path, ".js?") \/ Contains(request_path, ".mjs?")
    \/ Contains(request_path, ".ts?") \/ Contains(request_path, ".tsx?")

\* the condition of the CSS branch, line 728 (and 410)
IsCss(content_type, request_path) ==
    Contains(content_type, "css") \/ EndsWith(request_path, ".css")

\* proxy_handler's dispatch, lines 618, 728, 769, 820: HTML, then CSS, then JS
ProxyClass(content_type, request_path) ==
    IF Contains(content_type, "text/html") THEN "html"
    ELSE IF IsCss(content_type, request_path) THEN "css"
    ELSE IF IsJs(content_type, request_path) THEN "js"
    ELSE "other"

\* fallback_handler's dispatch, lines 364, 410, 446: JS, then CSS, no HTML branch
FallbackClass(content_type, request_path) ==
    IF IsJs(content_type, request_path) THEN "js"
    ELSE IF IsCss(content_type, request_path) THEN "css"
    ELSE "other"

ClassOf(route, content_type, request_path) ==
    IF route = "fallback" THEN FallbackClass(content_type, request_path)
    ELSE ProxyClass(content_type, request_path)

\* mutant: a rewritten response keeps the status of a fresh Response::new
TransformResponse_FreshStatus(route, backendResp, name, request_path) ==
    LET headers == StripHeaders(backendResp.headers)
        class == ClassOf(route, ContentType(backendResp.headers), request_path)
    IN  IF class = "other"
        THEN [status |-> backendResp.status, headers |-> headers,
              body |-> backendResp.body]
        ELSE [status |-> 200,
              headers |-> RemoveContentLength(headers),
              body |-> RewriteBody(class, backendResp.body, name, request_path)]

\* the response a handler returns for a backend response whose body, where
\* the class buffers it, was collected: lines 590-826 (and 342-450)
TransformResponse(route, backendResp, name, request_path) ==
    LET headers == StripHeaders(backendResp.headers)
        class == ClassOf(route, ContentType(backendResp.headers), request_path)
    IN  IF class = "other"
        THEN [status |-> backendResp.status, headers |-> headers,
              body |-> backendResp.body]
        ELSE [status |-> backendResp.status,
              headers |-> RemoveContentLength(headers),
              body |-> RewriteBody(class, backendResp.body, name, request_path)]

\* Result<Response, StatusCode>::Err(status): the status with an empty body
StatusResponse(status) == [status |-> status, headers |-> NoHeaders, body |-> ""]

\* lines 569-575 (and 321-327); the message is Japanese in the source:
\* "proxy error: cannot connect to backend server {}:{}\ndetail: {}"
BadGatewayResponse(t, err) ==
    [status |-> 502, headers |-> NoHeaders,
     body |-> "proxy error: cannot connect to backend server " \o Targets[t].name
              \o ":" \o ToString(Targets[t].port) \o "\ndetail: " \o err]

\* lines 579-585 (and 331-337): "timeout: backend server {}:{} does not
\* respond (10 seconds)"
GatewayTimeoutResponse(t) ==
    [status |-> 504, headers |-> NoHeaders,
     body |-> "timeout: backend server " \o Targets[t].name \o ":"
              \o ToString(Targets[t].port) \o " does not respond (10 seconds)"]

\* lines 624-632, 733-741, 778-786 (and 371-379, 413-421): "failed to read
\* the <class> response"
BodyReadErrorResponse(class) ==
    [status |-> 500, headers |-> NoHeaders,
     body |-> "failed to read the " \o class \o " response"]

\* show_selector, lines 77-192: the page itself is outside the model
SelectorResponse ==
    [status |-> 200,
     headers |-> [NoHeaders EXCEPT !["content-type"] = "text/html; charset=utf-8"],
     body |-> "<selector>"]

NoResponse == [status |-> 0, headers |-> NoHeaders, body |-> ""]

(***************************************************************************)
(* The inputs: inbound requests and what a backend may answer.             *)
(***************************************************************************)
InboundHeaders(referer, origin) ==
    [n \in ReqHeaderNames |->
        CASE n = "host"            -> "localhost:3000"
          [] n = "accept-encoding" -> "gzip"
          [] n = "cookie"          -> "k=v"
          [] n = "referer"         -> referer
          [] n = "origin"          -> origin
          [] OTHER                 -> None]

Queries == {None, "q=1"}

\* paths under the reserved prefix: registered names in several encodings,
\* an unregistered name, a name segment that is not UTF-8
PrefixPaths ==
    {"/proxy/a", "/proxy/a/x", "/proxy/%61/x", "/proxy/b!/x", "/proxy/b%21/x",
     "/proxy/b%21", "/proxy/zz", "/proxy/zz/x", "/proxy/%FF/x", "/proxy/a/s.css",
     "/proxy/a/node_modules/.vite/deps/m.js"}

PrefixHeaderSets ==
    {InboundHeaders(None, None),
     InboundHeaders("http://localhost:3000/proxy/a/page", "http://localhost:3000")}

PrefixRequests ==
    {[method |-> m, path |-> p, query |-> q, headers |-> h] :
        m \in Methods, p \in PrefixPaths, q \in Queries, h \in PrefixHeaderSets}

FallbackPaths == {"/x", "/m.js"}

FallbackReferers ==
    {None,
     "http://localhost:3000/proxy/a/page", "http://localhost:3000/proxy/a",
     "http://localhost:3000/proxy/a?q=1", "http://localhost:3000/proxy/b%21/p",
     "http://localhost:3000/proxy/zz/p", "http://localhost:3000/proxy/%FF/p",
     "http://localhost:3000/page", "http://localhost:30001/page",
     "http://example.com/page"}

FallbackOrigins ==
    {None, "http://localhost:3000", "http://localhost:30001", "http://example.com"}

FallbackRequests ==
    {[method |-> m, path |-> p, query |-> None, headers |-> InboundHeaders(r, o)] :
        m \in Methods, p \in FallbackPaths, r \in FallbackReferers, o \in FallbackOrigins}

RootRequests ==
    {[method |-> m, path |-> "/", query |-> None, headers |-> InboundHeaders(None, None)] :
        m \in {"GET", "POST"}}

InboundRequests == PrefixRequests \cup FallbackRequests \cup RootRequests

NoRequest == [method |-> None, path |-> "", query |-> None,
              headers |-> [n \in ReqHeaderNames |-> None]]

BackendContentTypes ==
    {None, "text/html; charset=utf-8", "text/css", "application/javascript", "image/png"}

BackendHeaderSets ==
    {[n \in RespHeaderNames |->
        CASE n = "content-type"   -> ct
          [] n = "content-length" -> IF v = 3 THEN None ELSE "42"
          [] n = "cache-control"  -> "no-cache"
          [] n = "content-security-policy" ->
                IF v = 1 THEN None ELSE "default-src 'self'"
          [] n = "content-security-policy-report-only" ->
                IF v = 2 THEN "default-src 'none'" ELSE None
          [] n = "cross-origin-resource-policy" ->
                IF v = 3 THEN "same-origin" ELSE None] :
        ct \in BackendContentTypes, v \in {1, 2, 3}}

BackendBodies ==
    {"<head><a href=\"/x\">url(/y) from '/z'", "import(\"/proxy/a/m\")\f"}

BackendResponses ==
    {[status |-> st, headers |-> h, body |-> b] :
        st \in {200, 404}, h \in BackendHeaderSets, b \in BackendBodies}

\* what hyper reports for a failed attempt
UpstreamErrors == {"connection refused", "connection reset"}

(***************************************************************************)
(* The request pipeline: one task per request.                             *)
(***************************************************************************)
ReqIds == {"r1", "r2"}

\* the backend's side of a request: st is idle, pending, responded (the
\* response head reached the handler), failed (with err), body_failed (the
\* body stream broke while it was collected), abandoned (the handler gave up
\* waiting) or late (the backend answered an abandoned request)
BackendState(st, response, err) == [st |-> st, response |-> response, err |-> err]

NoBackend == BackendState("idle", NoResponse, "")

RwIdle == [stage |-> "idle", class |-> "", name |-> "", input |-> "", once |-> "", twice |-> ""]

Init ==
    /\ pc = [r \in ReqIds |-> "idle"]
    /\ req = [r \in ReqIds |-> NoRequest]
    /\ handler = [r \in ReqIds |-> None]
    /\ upstream = [r \in ReqIds |-> NoUpstream]
    /\ attempts = [r \in ReqIds |-> 0]
    /\ backend = [r \in ReqIds |-> NoBackend]
    /\ resp = [r \in ReqIds |-> NoResponse]
    /\ rw = RwIdle

\* the handler returns `response`: the task of request r ends
Return(r, response) ==
    /\ resp' = [resp EXCEPT ![r] = response]
    /\ pc' = [pc EXCEPT ![r] = "done"]

\* a request arrives and the router matches its path
Receive(r, request) ==
    /\ pc[r] = "idle"
    /\ req' = [req EXCEPT ![r] = request]
    /\ handler' = [handler EXCEPT ![r] = MatchRoute(request.path).route]
    /\ pc' = [pc EXCEPT ![r] = "received"]
    /\ UNCHANGED <<upstream, attempts, backend, resp, rw>>

\* the matched route has no handler for the method
MethodNotAllowed(r) ==
    /\ pc[r] = "received"
    /\ req[r].method \notin RouteMethods(handler[r])
    /\ Return(r, StatusResponse(405))
    /\ UNCHANGED <<req, handler, upstream, attempts, backend, rw>>

ShowSelector(r) ==
    /\ pc[r] = "received"
    /\ handler[r] = "selector"
    /\ req[r].method \in RouteMethods(handler[r])
    /\ Return(r, SelectorResponse)
    /\ UNCHANGED <<req, handler, upstream, attempts, backend, rw>>

IsProxyRoute(route) == route \in {"proxy_name", "proxy_path"}

\* the request reaches proxy_handler or its extractor
ProxyDispatched(r) ==
    /\ pc[r] = "received"
    /\ IsProxyRoute(handler[r])
    /\ req[r].method \in RouteMethods(handler[r])

\* the Path extractor rejects the request: proxy_handler's body does not run
PathRejection(r) ==
    /\ ProxyDispatched(r)
    /\ ~PathParams(MatchRoute(req[r].path)).ok
    /\ Return(r, StatusResponse(400))
    /\ UNCHANGED <<req, handler, upstream, attempts, backend, rw>>

\* lines 468-471: no target of that name
ProxyNotFound(r) ==
    /\ ProxyDispatched(r)
    /\ LET params == PathParams(MatchRoute(req[r].path))
       IN  params.ok /\ FindTarget(params.target_name) = 0
    /\ Return(r, StatusResponse(404))
    /\ UNCHANGED <<req, handler, upstream, attempts, backend, rw>>

\* state.client.request(req) under timeout(10 s): the one place a handler
\* hands a request to the upstream client
SendUpstream(r, outbound) ==
    /\ upstream' = [upstream EXCEPT ![r] = outbound]
    /\ attempts' = [attempts EXCEPT ![r] = @ + 1]
    /\ backend' = [backend EXCEPT ![r] = BackendState("pending", NoResponse, "")]
    /\ pc' = [pc EXCEPT ![r] = "sent"]

\* proxy_handler, lines 464-561
ProxySend(r) ==
    /\ ProxyDispatched(r)
    /\ LET params == PathParams(MatchRoute(req[r].path))
           t == FindTarget(params.target_name)
       IN  /\ params.ok
           /\ t # 0
           /\ SendUpstream(r, ProxyOutbound(req[r], t))
    /\ UNCHANGED <<req, handler, resp, rw>>

FallbackDispatched(r) ==
    /\ pc[r] = "received"
    /\ handler[r] = "fallback"
    /\ req[r].method \in RouteMethods(handler[r])

\* fallback_handler, line 455
FallbackNotFound(r) ==
    /\ FallbackDispatched(r)
    /\ FallbackTarget(req[r].headers) = 0
    /\ Return(r, StatusResponse(404))
    /\ UNCHANGED <<req, handler, upstream, attempts, backend, rw>>

\* fallback_handler, lines 200-313
FallbackSend(r) ==
    /\ FallbackDispatched(r)
    /\ LET t == FallbackTarget(req[r].headers)
       IN  /\ t # 0
           /\ SendUpstream(r, FallbackOutbound(req[r], t))
    /\ UNCHANGED <<req, handler, resp, rw>>

\* Ok(Ok(response)): the backend's response head arrives in time
BackendRespond(r, response) ==
    /\ pc[r] = "sent"
    /\ backend[r].st = "pending"
    /\ backend' = [backend EXCEPT ![r] = BackendState("responded", response, "")]
    /\ pc' = [pc EXCEPT ![r] = "responded"]
    /\ UNCHANGED <<req, handler, upstream, attempts, resp, rw>>

\* mutant: a failed attempt is sent again
UpstreamError_Retries(r, err) ==
    /\ pc[r] = "sent"
    /\ backend[r].st = "pending"
    /\ SendUpstream(r, upstream[r])
    /\ UNCHANGED <<req, handler, resp, rw>>

\* Ok(Err(err)), lines 566-576 (and 318-328)
UpstreamError(r, err) ==
    /\ pc[r] = "sent"
    /\ backend[r].st = "pending"
    /\ backend' = [backend EXCEPT ![r] = BackendState("failed", NoResponse, err)]
    /\ Return(r, BadGatewayResponse(upstream[r].target, err))
    /\ UNCHANGED <<req, handler, upstream, attempts, rw>>

\* mutant: the timer of one request gives up every pending request
UpstreamTimeout_AbandonsAll(r) ==
    LET waiting == {o \in ReqIds : pc[o] = "sent" /\ backend[o].st = "pending"}
    IN  /\ r \in waiting
        /\ backend' = [o \in ReqIds |->
                          IF o \in waiting THEN BackendState("abandoned", NoResponse, "")
                          ELSE backend[o]]
        /\ resp' = [o \in ReqIds |->
                       IF o \in waiting THEN GatewayTimeoutResponse(upstream[o].target)
                       ELSE resp[o]]
        /\ pc' = [o \in ReqIds |-> IF o \in waiting THEN "done" ELSE pc[o]]
        /\ UNCHANGED <<req, handler, upstream, attempts, rw>>

\* Err(_), lines 577-586 (and 329-338): the timer fires first and the
\* request future is dropped
UpstreamTimeout(r) ==
    /\ pc[r] = "sent"
    /\ backend[r].st = "pending"
    /\ backend' = [backend EXCEPT ![r] = BackendState("abandoned", NoResponse, "")]
    /\ Return(r, GatewayTimeoutResponse(upstream[r].target))
    /\ UNCHANGED <<req, handler, upstream, attempts, rw>>

\* mutant: the answer to an abandoned request still reaches the client
LateBackendResponse_Forwarded(r, response) ==
    /\ backend[r].st = "abandoned"
    /\ backend' = [backend EXCEPT ![r] = BackendState("late", response, "")]
    /\ resp' = [resp EXCEPT ![r] = TransformResponse(handler[r], response,
                                   Targets[upstream[r].target].name, req[r].path)]
    /\ UNCHANGED <<pc, req, handler, upstream, attempts, rw>>

\* the backend answers a request whose future was dropped
LateBackendResponse(r, response) ==
    /\ backend[r].st = "abandoned"
    /\ backend' = [backend EXCEPT ![r] = BackendState("late", response, "")]
    /\ UNCHANGED <<pc, req, handler, upstream, attempts, resp, rw>>

\* the rewrite class of the response request r is waiting to return
PendingClass(r) ==
    ClassOf(handler[r], ContentType(backend[r].response.headers), req[r].path)

\* lines 590-826 (and 342-450): the response is transformed and returned
ReturnResponse(r) ==
    /\ pc[r] = "responded"
    /\ Return(r, TransformResponse(handler[r], backend[r].response,
                                   Targets[upstream[r].target].name, req[r].path))
    /\ UNCHANGED <<req, handler, upstream, attempts, backend, rw>>

\* body.collect().await fails in a branch that buffers the body
BodyReadError(r) ==
    /\ pc[r] = "responded"
    /\ PendingClass(r) # "other"
    /\ backend' = [backend EXCEPT ![r].st = "body_failed"]
    /\ Return(r, BodyReadErrorResponse(PendingClass(r)))
    /\ UNCHANGED <<req, handler, upstream, attempts, rw>>

\* the requests in flight
ActiveReqs == {"r1"}

Next ==
    \E r \in ActiveReqs :
        \/ \E request \in InboundRequests : Receive(r, request)
        \/ MethodNotAllowed(r)
        \/ ShowSelector(r)
        \/ PathRejection(r)
        \/ ProxyNotFound(r)
        \/ ProxySend(r)
        \/ FallbackNotFound(r)
        \/ FallbackSend(r)
        \/ \E response \in BackendResponses : BackendRespond(r, response)
        \/ \E err \in UpstreamErrors : UpstreamError(r, err)
        \/ UpstreamTimeout(r)
        \/ \E response \in BackendResponses : LateBackendResponse(r, response)
        \/ ReturnResponse(r)
        \/ BodyReadError(r)

Spec == Init /\ [][Next]_vars

(***************************************************************************)
(* Two requests in flight: axum::serve runs each request's handler as its  *)
(* own task (lines 66-74), and the steps of the tasks interleave freely.   *)
(* The handlers share AppState (lines 31-35): the registry behind an Arc,  *)
(* read only, and the client.                                              *)
(***************************************************************************)
ConcRequests ==
    {q \in InboundRequests :
        /\ q.query = None
        /\ q.headers["origin"] = None
        /\ \/ q.method = "GET" /\ q.headers["referer"] = None
                 /\ q.path \in {"/", "/x", "/proxy/a/x", "/proxy/zz", "/proxy/%FF/x"}
           \/ q.method = "PUT" /\ q.headers["referer"] = None /\ q.path = "/proxy/a"
           \/ q.method = "GET" /\ q.path = "/x"
                 /\ q.headers["referer"] = "http://localhost:3000/proxy/a/page"}

ConcResponses ==
    {b \in BackendResponses :
        /\ b.headers["cross-origin-resource-policy"] # None
        /\ \/ b.status = 200 /\ ContentType(b.headers) = "text/html; charset=utf-8"
                 /\ Contains(b.body, "<head>")
           \/ b.status = 404 /\ ContentType(b.headers) = "image/png"
                 /\ Contains(b.body, InvalidByte)}

ConcErrors == {"connection refused"}

NextConc ==
    \E r \in ReqIds :
        \/ \E request \in ConcRequests : Receive(r, request)
        \/ MethodNotAllowed(r)
        \/ ShowSelector(r)
        \/ PathRejection(r)
        \/ ProxyNotFound(r)
        \/ ProxySend(r)
        \/ FallbackNotFound(r)
        \/ FallbackSend(r)
        \/ \E response \in ConcResponses : BackendRespond(r, response)
        \/ \E err \in ConcErrors : UpstreamError(r, err)
        \/ UpstreamTimeout(r)
        \/ \E response \in ConcResponses : LateBackendResponse(r, response)
        \/ ReturnResponse(r)
        \/ BodyReadError(r)

SpecConc == Init /\ [][NextConc]_vars

(***************************************************************************)
(* The rewrite bench: a body, a target name and a rewrite class are drawn, *)
(* and the class's pass is applied to the body and then to its own output. *)
(***************************************************************************)
MaxFrags == 3

RewriteNames == {"a", "b!", "proxy"}

\* pieces of a document for the whole HTML branch (lines 638-715)
HtmlDocFragments ==
    {"<html>", "<head>", "<HEAD>", "<Head>",
     "<meta http-equiv=\"Content-Security-Policy\" content=\"c\">",
     "<meta http-equiv='Content-Security-Policy' content='c'>"}

\* pieces of markup for the path rewriting of the HTML branch (lines 683-715)
HtmlFragments ==
    {"<a href=\"/", "fetch('/", ".open('GET', '/", "proxy/", "a/"}

CssFragments == {"url('/", "url(/", "proxy/", "a/", "b%21/"}

JsFragments == {"from '/", "import(\"/", "proxy/", "a/", "\f"}

\* every concatenation of at most n fragments
RECURSIVE Bodies(_, _)
Bodies(frags, n) ==
    IF n = 0 THEN {""}
    ELSE LET shorter == Bodies(frags, n - 1)
         IN  shorter \cup {b \o f : b \in shorter, f \in frags}

\* "html-paths" is the path rewriting of the HTML branch alone (lines 683-715)
BenchClasses == {"html", "html-paths", "css", "js"}

BenchFragments(class) ==
    CASE class = "css"  -> CssFragments
      [] class = "js"   -> JsFragments
      [] class = "html" -> HtmlDocFragments
      [] OTHER          -> HtmlFragments

\* the request path of the bench: a script outside the dependency cache
BenchPath == "/proxy/a/app.js"

BenchPass(class, body, name) ==
    IF class = "html-paths" THEN HtmlRewritePaths(FromUtf8Lossy(body), name)
    ELSE RewriteBody(class, body, name, BenchPath)

InitRewrite ==
    /\ pc = [r \in ReqIds |-> "idle"]
    /\ req = [r \in ReqIds |-> NoRequest]
    /\ handler = [r \in ReqIds |-> None]
    /\ upstream = [r \in ReqIds |-> NoUpstream]
    /\ attempts = [r \in ReqIds |-> 0]
    /\ backend = [r \in ReqIds |-> NoBackend]
    /\ resp = [r \in ReqIds |-> NoResponse]
    /\ \E class \in BenchClasses, name \in RewriteNames :
         \E body \in Bodies(BenchFragments(class), MaxFrags) :
            rw = [stage |-> "input", class |-> class, name |-> name,
                  input |-> body, once |-> "", twice |-> ""]

FirstPass ==
    /\ rw.stage = "input"
    /\ rw' = [rw EXCEPT !.stage = "once", !.once = BenchPass(rw.class, rw.input, rw.name)]
    /\ UNCHANGED <<pc, req, handler, upstream, attempts, backend, resp>>

SecondPass ==
    /\ rw.stage = "once"
    /\ rw' = [rw EXCEPT !.stage = "twice", !.twice = BenchPass(rw.class, rw.once, rw.name)]
    /\ UNCHANGED <<pc, req, handler, upstream, attempts, backend, resp>>

NextRewrite == FirstPass \/ SecondPass

SpecRewrite == InitRewrite /\ [][NextRewrite]_vars

(***************************************************************************)
(* The header bench: an inbound header set and a target are drawn, and the *)
(* header mutations of lines 505-558 (and 260-310) are applied to the set  *)
(* and then to their own output.                                           *)
(***************************************************************************)
BenchHosts == {None, "localhost:3000", "localhost:4000"}

BenchReferers ==
    {None, "http://localhost:3000/proxy/a/page?x=1", "http://localhost:3000",
     "localhost:3000", "not a uri"}

BenchHeaderSets ==
    {[n \in ReqHeaderNames |->
        CASE n = "host"            -> h
          [] n = "referer"         -> ref
          [] n = "origin"          -> o
          [] n = "accept-encoding" -> e
          [] n = "x-forwarded-for" -> f
          [] n = "cookie"          -> "k=v"
          [] OTHER                 -> None] :
        h \in BenchHosts, ref \in BenchReferers, o \in {None, "http://localhost:3000"},
        e \in {None, "gzip"}, f \in {None, "10.0.0.1"}}

InitHeaders ==
    /\ pc = [r \in ReqIds |-> "idle"]
    /\ req = [r \in ReqIds |-> NoRequest]
    /\ handler = [r \in ReqIds |-> None]
    /\ upstream = [r \in ReqIds |-> NoUpstream]
    /\ attempts = [r \in ReqIds |-> 0]
    /\ backend = [r \in ReqIds |-> NoBackend]
    /\ resp = [r \in ReqIds |-> NoResponse]
    /\ \E t \in TargetIdx, headers \in BenchHeaderSets :
            rw = [stage |-> "input", class |-> "headers", name |-> Targets[t].name,
                  input |-> headers, once |-> NoUpstream.headers,
                  twice |-> NoUpstream.headers]

BenchPort(name) == Targets[FindTarget(name)].port

FirstApply ==
    /\ rw.stage = "input"
    /\ rw' = [rw EXCEPT !.stage = "once",
                        !.once = TransformHeaders(rw.input, BenchPort(rw.name))]
    /\ UNCHANGED <<pc, req, handler, upstream, attempts, backend, resp>>

SecondApply ==
    /\ rw.stage = "once"
    /\ rw' = [rw EXCEPT !.stage = "twice",
                        !.twice = TransformHeaders(rw.once, BenchPort(rw.name))]
    /\ UNCHANGED <<pc, req, handler, upstream, attempts, backend, resp>>

NextHeaders == FirstApply \/ SecondApply

SpecHeaders == InitHeaders /\ [][NextHeaders]_vars

(***************************************************************************)
(* C3                                                                      *)
(***************************************************************************)
\* C3, as stated: for each of the three classes (HTML, CSS, JS) and every
\* target name, the full pass applied to the output of a first pass yields
\* the output of the first pass.
C3_IdempotentAllClasses ==
    (rw.stage = "twice" /\ rw.class \in {"html", "css", "js"}) => rw.twice = rw.once

\* C3, amended: the CSS pass, the JS pass and the path rewriting of the HTML
\* pass are idempotent for every target name: a second pass changes nothing,
\* so no proxy prefix accumulates.
C3_IdempotentCssJsPaths ==
    (rw.stage = "twice" /\ rw.class \in {"css", "js", "html-paths"}) => rw.twice = rw.once

\* a CSS body whose first pass inserted a prefix and whose second pass, after
\* inserting it again, repaired it
C3_Witness ==
    /\ rw.stage = "twice"
    /\ rw.class = "css"
    /\ rw.once # rw.input
    /\ Contains(rw.once, "url('" \o ProxyPrefix(rw.name) \o "/")
    /\ InsertAll(rw.once, CssPatterns, rw.name) # rw.once
    /\ rw.twice = rw.once

(***************************************************************************)
(* Claims about the request pipeline.  The operators below read a request  *)
(* the way the claims describe it; they are not part of the program.       *)
(***************************************************************************)
\* the handler of request r has run up to its first await or to its return
Handled(r) == pc[r] \in {"sent", "responded", "done"}

\* request r was handed to a handler that serves its method
Served(r) == Handled(r) /\ req[r].method \in RouteMethods(handler[r])

\* the name segment of a path under the reserved prefix, still encoded
NameSegment(path) == MatchRoute(path).target_name

\* the path remainder after /proxy/<name>, "" when there is none
Remainder(path) ==
    IF MatchRoute(path).route = "proxy_path" THEN "/" \o MatchRoute(path).path ELSE ""

\* the registered target a name segment decodes to, 0 when there is none
SegmentTarget(segment) ==
    IF DecodeUtf8(segment).ok THEN FindTarget(DecodeUtf8(segment).val) ELSE 0

\* the upstream request of r went to target t
ForwardedTo(r, t) ==
    /\ attempts[r] = 1
    /\ upstream[r].target = t
    /\ StartsWith(upstream[r].uri, "http://localhost:" \o ToString(Targets[t].port) \o "/")

\* C1, as stated: a request to /proxy/<name>/<P>?Q, the name segment in any
\* percent-encoding that decodes to a registered T.name, is sent upstream to
\* http://localhost:<T.port>/<P>?Q, an empty remainder becoming "/".
C1_PrefixForwardedInFull ==
    \A r \in ReqIds :
        (Served(r) /\ IsProxyRoute(handler[r])
            /\ SegmentTarget(NameSegment(req[r].path)) # 0)
        => LET t == SegmentTarget(NameSegment(req[r].path))
               rest == Remainder(req[r].path)
           IN  upstream[r].uri =
                   "http://localhost:" \o ToString(Targets[t].port)
                       \o (IF rest = "" THEN "/" ELSE rest)
                       \o (IF req[r].query = None THEN "" ELSE "?" \o req[r].query)

\* request r cannot be resolved to a registered target by exact name match
Unresolvable(r) ==
    \/ IsProxyRoute(handler[r]) /\ SegmentTarget(NameSegment(req[r].path)) = 0
    \/ handler[r] = "fallback" /\ FallbackTarget(req[r].headers) = 0

\* C2, as stated: a request that cannot be resolved to a registered target
\* ends with 404 and no upstream request; every upstream request is issued
\* for a target whose name is the resolved name.
C2_UnresolvedIs404 ==
    \A r \in ReqIds :
        /\ (pc[r] = "done" /\ Unresolvable(r)) => (resp[r].status = 404 /\ attempts[r] = 0)
        /\ attempts[r] > 0 =>
              /\ upstream[r].target \in TargetIdx
              /\ IF handler[r] = "fallback"
                 THEN FallbackTargetName(req[r].headers).val = Targets[upstream[r].target].name
                 ELSE DecodeUtf8(NameSegment(req[r].path)).val = Targets[upstream[r].target].name

\* C4: once the timer has fired on a pending upstream request, the client's
\* response is the 504 naming the target, with nothing of the backend's
\* response in it, whatever the backend does afterwards, and no further
\* upstream request is made; on both routes.
C4_TimeoutIs504 ==
    \A r \in ReqIds :
        backend[r].st \in {"abandoned", "late"} =>
            /\ pc[r] = "done"
            /\ attempts[r] = 1
            /\ resp[r].status = 504
            /\ Contains(resp[r].body, Targets[upstream[r].target].name)
            /\ Contains(resp[r].body, ToString(Targets[upstream[r].target].port))
            /\ \A n \in RespHeaderNames : resp[r].headers[n] = None
            /\ resp[r].body # backend[r].response.body

\* the backend answered a timed-out fallback request with a full response
C4_Witness ==
    \E r \in ReqIds :
        /\ backend[r].st = "late"
        /\ backend[r].response.status = 200
        /\ handler[r] = "fallback"
        /\ resp[r].status = 504

\* C5: a handler makes at most one upstream attempt per request; when it
\* fails the request ends at once with a 502 whose body names the target
\* and the error.
C5_SingleAttempt502 ==
    \A r \in ReqIds :
        /\ attempts[r] <= 1
        /\ backend[r].st = "failed" =>
              /\ pc[r] = "done"
              /\ attempts[r] = 1
              /\ resp[r].status = 502
              /\ Contains(resp[r].body, Targets[upstream[r].target].name)
              /\ Contains(resp[r].body, backend[r].err)

\* a failed attempt on the prefix route, answered with 502
C5_Witness ==
    \E r \in ReqIds :
        /\ backend[r].st = "failed"
        /\ backend[r].err = "connection refused"
        /\ IsProxyRoute(handler[r])
        /\ resp[r].status = 502

\* the target name a Referer carries after its first /proxy/, read up to the
\* next "/", the next "?" or the end, still encoded; None when the Referer
\* has no /proxy/
RefererSegment(referer) ==
    LET p == Find(referer, "/proxy/")
        tail == SubStr(referer, p + Len("/proxy/"))
        stops == {i \in 1..Len(tail) : CharAt(tail, i) \in {"/", "?"}}
    IN  IF referer = None \/ p = 0 THEN None
        ELSE IF stops = {} THEN tail
        ELSE SubSeq(tail, 1, (CHOOSE i \in stops : \A j \in stops : i <= j) - 1)

\* C6, as stated: a fallback request whose Referer contains /proxy/<name>
\* for a registered name, whatever follows the name, is forwarded to that
\* target's port.
C6_RefererResolves ==
    \A r \in ReqIds :
        (Served(r) /\ handler[r] = "fallback"
            /\ RefererSegment(req[r].headers["referer"]) # None
            /\ SegmentTarget(RefererSegment(req[r].headers["referer"])) # 0)
        => ForwardedTo(r, SegmentTarget(RefererSegment(req[r].headers["referer"])))

\* the port of the authority of an absolute URL, as text; None for an absent
\* header or an authority without a port
AuthorityPort(url) ==
    LET sep == Find(url, "://")
        after == SubStr(url, sep + 3)
        slash == Find(after, "/")
        authority == IF slash = 0 THEN after ELSE SubSeq(after, 1, slash - 1)
        colon == Find(authority, ":")
    IN  IF url = None \/ sep = 0 \/ colon = 0 THEN None
        ELSE SubStr(authority, colon + 1)

HasRouterPort(url) == AuthorityPort(url) = ToString(Config.router_port)

\* C7, as stated: a fallback request whose Referer has no /proxy/ goes to
\* the first target when the authority of its Origin or Referer has the
\* router's port, and ends with 404 otherwise.
C7_PortHeuristic ==
    \A r \in ReqIds :
        (Served(r) /\ handler[r] = "fallback"
            /\ RefererSegment(req[r].headers["referer"]) = None)
        => IF HasRouterPort(req[r].headers["origin"])
              \/ HasRouterPort(req[r].headers["referer"])
           THEN ForwardedTo(r, 1)
           ELSE pc[r] = "done" /\ resp[r].status = 404 /\ attempts[r] = 0

\* C8, as stated: a request whose target-name segment does not decode (in
\* the path on the prefix route, in the Referer on the fallback route) ends
\* with 404 and no upstream request.
C8_UndecodableIs404 ==
    \A r \in ReqIds :
        (Served(r)
            /\ \/ IsProxyRoute(handler[r]) /\ ~DecodeUtf8(NameSegment(req[r].path)).ok
               \/ /\ handler[r] = "fallback"
                  /\ RefererSegment(req[r].headers["referer"]) # None
                  /\ ~DecodeUtf8(RefererSegment(req[r].headers["referer"])).ok)
        => pc[r] = "done" /\ resp[r].status = 404 /\ attempts[r] = 0

\* C9, as stated: for each of the five methods, a request to /proxy/<name>
\* and one to /proxy/<name>/<path> with a registered name are proxied to
\* that target.
C9_FiveMethodsBothShapes ==
    \A r \in ReqIds :
        (pc[r] \in {"sent", "responded", "done"}
            /\ req[r].method \in Methods
            /\ IsProxyRoute(handler[r])
            /\ FindTarget(NameSegment(req[r].path)) # 0)
        => ForwardedTo(r, FindTarget(NameSegment(req[r].path)))

\* the handler of r returned the backend's response
ReturnedBackendResponse(r) == pc[r] = "done" /\ backend[r].st = "responded"

\* C10: the headers of a returned backend response are the backend's, with
\* both CSP headers absent, Cross-Origin-Resource-Policy defaulted to
\* cross-origin, Content-Length absent exactly when the body was buffered,
\* and every other header as the backend sent it; on both routes.
C10_ResponseHeaderFrame ==
    \A r \in ReqIds :
        ReturnedBackendResponse(r) =>
            LET sent == backend[r].response.headers
                buffered == ClassOf(handler[r], ContentType(sent), req[r].path) # "other"
            IN  \A n \in RespHeaderNames :
                    resp[r].headers[n] =
                        CASE n \in {"content-security-policy",
                                    "content-security-policy-report-only"} -> None
                          [] n = "cross-origin-resource-policy" ->
                                IF sent[n] = None THEN "cross-origin" ELSE sent[n]
                          [] n = "content-length" ->
                                IF buffered THEN None ELSE sent[n]
                          [] OTHER -> sent[n]

\* a buffered response that carried both CSP headers and a Content-Length
C10_Witness ==
    \E r \in ReqIds :
        /\ ReturnedBackendResponse(r)
        /\ backend[r].response.headers["content-security-policy-report-only"] # None
        /\ backend[r].response.headers["content-length"] # None
        /\ resp[r].headers["content-length"] = None
        /\ resp[r].headers["cross-origin-resource-policy"] = "cross-origin"
        /\ resp[r].headers["cache-control"] = "no-cache"

(***************************************************************************)
(* Claims about the rewritten body.                                        *)
(***************************************************************************)
\* s with its ASCII capitals in lower case
Lower(s) ==
    [i \in 1..Len(s) |->
        IF CodeOf(CharAt(s, i)) \in 65..90
        THEN CharAt(CharOf(CodeOf(CharAt(s, i)) + 32), 1)
        ELSE CharAt(s, i)]

\* the positions of the head opening tags of a document, in any letter case
HeadTags(doc) ==
    {i \in 1..Len(doc) : i + 5 <= Len(doc) /\ Lower(SubSeq(doc, i, i + 5)) = Lower("<head>")}

\* the text that follows position i of doc starts with p
At(doc, i, p) == i + Len(p) - 1 <= Len(doc) /\ SubSeq(doc, i, i + Len(p) - 1) = p

\* C11, as stated: the rewritten HTML body has the base element right after
\* the first head opening tag (any letter case) when the document has one,
\* and no head element is added then; a document without one gets a head
\* element holding the base element right after its opening <html...> tag.
C11_BaseAfterFirstHead ==
    (rw.stage \in {"once", "twice"} /\ rw.class = "html") =>
        LET doc == rw.input
            out == rw.once
            base == BaseTag(rw.name)
        IN  IF HeadTags(doc) # {}
            THEN /\ Cardinality(HeadTags(out)) = Cardinality(HeadTags(doc))
                 /\ LET first == CHOOSE i \in HeadTags(out) : \A j \in HeadTags(out) : i <= j
                    IN  At(out, first + 6, base)
            ELSE Find(doc, "<html") # 0 =>
                    LET h == Find(out, "<html")
                        e == Find(SubStr(out, h), ">")
                    IN  At(out, h + e, "<head>" \o base \o "</head>")

\* the rewrite class applied to the backend response returned to request r
ReturnedClass(r) ==
    ClassOf(handler[r], ContentType(backend[r].response.headers), req[r].path)

\* every occurrence of one of the patterns in body refers to a path under
\* the reserved prefix
AllPrefixed(body, pats) ==
    \A k \in 1..Len(pats) : \A i \in 1..Len(body) :
        At(body, i, pats[k] \o "/") => At(body, i, pats[k] \o "/proxy/")

\* C12, as stated: a JavaScript/TypeScript response has its four import
\* patterns prefixed when the request path has no /node_modules/.vite/deps/
\* segment, and is returned byte for byte as the backend sent it when the
\* path has that segment, invalid UTF-8 included.
C12_ViteDepsUntouched ==
    \A r \in ReqIds :
        (ReturnedBackendResponse(r) /\ ReturnedClass(r) = "js") =>
            IF IsViteDeps(req[r].path)
            THEN resp[r].body = backend[r].response.body
            ELSE AllPrefixed(resp[r].body, JsPatterns)

\* C13: a returned backend response that is none of HTML, CSS or
\* JavaScript/TypeScript has the backend's body and status; and every
\* returned backend response, rewritten or not, has the backend's status.
C13_PassThroughBodyAndStatus ==
    \A r \in ReqIds :
        ReturnedBackendResponse(r) =>
            /\ resp[r].status = backend[r].response.status
            /\ ReturnedClass(r) = "other" => resp[r].body = backend[r].response.body

\* a 404 of the backend whose body is not valid UTF-8, passed through
C13_Witness ==
    \E r \in ReqIds :
        /\ ReturnedBackendResponse(r)
        /\ ReturnedClass(r) = "other"
        /\ backend[r].response.status = 404
        /\ Contains(backend[r].response.body, InvalidByte)
        /\ resp[r].status = 404
        /\ resp[r].body = backend[r].response.body

(***************************************************************************)
(* Claims about requests in flight together.                               *)
(***************************************************************************)
\* everything the pipeline holds for request r
TaskState(r) ==
    <<pc[r], req[r], handler[r], upstream[r], attempts[r], backend[r], resp[r]>>

\* the same, after the step
TaskStateNext(r) ==
    <<pc'[r], req'[r], handler'[r], upstream'[r], attempts'[r], backend'[r], resp'[r]>>

\* a step belongs to one request and leaves every other request as it was
OneTaskSteps == \E r \in ReqIds : \A o \in ReqIds \ {r} : TaskStateNext(o) = TaskState(o)

\* a response, once returned, stays as it is
ResponseKept == \A r \in ReqIds : pc[r] = "done" => resp'[r] = resp[r]

\* two finished requests that were equal and whose backends did the same
\* got the same response
SameCauseSameResponse ==
    \A r, o \in ReqIds :
        (pc[r] = "done" /\ pc[o] = "done" /\ req[r] = req[o] /\ backend[r] = backend[o])
        => resp[r] = resp[o]

\* C14: with requests in flight together, under every interleaving, each
\* request's response is determined by that request and by what its own
\* backend did, and no step of one request (a 404, 400, 502, 504 or 500
\* outcome included) changes anything held for another.
C14_TasksIndependent ==
    /\ []SameCauseSameResponse
    /\ [][OneTaskSteps /\ ResponseKept]_vars

\* one request ended with 504 while the other was forwarded and got its
\* backend's 200
C14_Witness ==
    /\ resp["r1"].status = 504
    /\ backend["r1"].st = "abandoned"
    /\ ReturnedBackendResponse("r2")
    /\ resp["r2"].status = 200
    /\ attempts["r2"] = 1

(***************************************************************************)
(* Claims about the choice of the rewrite class.                           *)
(***************************************************************************)
\* the class a declared MIME type selects, "other" when it selects none
DeclaredClass(content_type) ==
    CASE Contains(content_type, "text/html") -> "html"
      [] Contains(content_type, "text/css") -> "css"
      [] Contains(content_type, "javascript") \/ Contains(content_type, "typescript") -> "js"
      [] OTHER -> "other"

\* the class a path suffix selects, "other" when it selects none
SuffixClass(request_path) ==
    CASE EndsWith(request_path, ".css") -> "css"
      [] \E x \in {".js", ".mjs", ".ts", ".tsx"} :
            EndsWith(request_path, x) \/ Contains(request_path, x \o "?") -> "js"
      [] OTHER -> "other"

\* C15, as stated: on both routes the rewrite class is the one the declared
\* MIME type selects, and the one the path suffix selects only when the
\* declared type selects none.
C15_MimeFirstOnBothRoutes ==
    \A r \in ReqIds :
        ReturnedBackendResponse(r) =>
            LET declared == DeclaredClass(ContentType(backend[r].response.headers))
            IN  ReturnedClass(r) =
                    IF declared # "other" THEN declared ELSE SuffixClass(req[r].path)

(***************************************************************************)
(* Claims about the path rewriting.                                        *)
(***************************************************************************)
\* the listed patterns of a class of the bench
ClassPatterns(class) ==
    CASE class = "css" -> CssPatterns
      [] class = "js"  -> JsPatterns
      [] OTHER         -> HtmlAttrPatterns \o HtmlFetchPatterns \o HtmlXhrPatterns

\* what the claim asks of a text, read from left to right: where a pattern
\* stands before a path that does not begin with /proxy/, the prefix goes in
\* between; everything else is copied
RECURSIVE PrefixedOnce(_, _, _, _)
PrefixedOnce(text, pats, name, acc) ==
    IF text = "" THEN acc
    ELSE LET hits == {k \in 1..Len(pats) : StartsWith(text, pats[k] \o "/")}
             pat == IF hits = {} THEN SubSeq(text, 1, 1) ELSE pats[CHOOSE k \in hits : TRUE]
             put == IF hits = {} \/ StartsWith(text, pat \o "/proxy/")
                    THEN acc \o pat
                    ELSE acc \o pat \o ProxyPrefix(name)
             rest == SubStr(text, Len(pat) + 1)
         IN  IF Evaluated(put) /\ Evaluated(rest)
             THEN PrefixedOnce(rest, pats, name, put)
             ELSE acc

\* C16: in each rewrite class, an occurrence of a listed pattern before a
\* path that does not begin with /proxy/ gets /proxy/<name> exactly once, an
\* occurrence before a path that begins with /proxy/ is left as it was, and
\* all other text is unchanged by the insertion and repair passes.
C16_PrefixedExactlyOnce ==
    (rw.stage \in {"once", "twice"} /\ rw.class \in {"css", "js", "html-paths"}) =>
        rw.once = PrefixedOnce(FromUtf8Lossy(rw.input), ClassPatterns(rw.class), rw.name, "")

\* one link under the reserved prefix already and one that is not, for a
\* target whose name needs encoding
C16_Witness ==
    /\ rw.stage = "once"
    /\ rw.class = "html-paths"
    /\ rw.name = "b!"
    /\ rw.input = "<a href=\"/proxy/<a href=\"/"
    /\ rw.once = "<a href=\"/proxy/<a href=\"/proxy/b%21/"

(***************************************************************************)
(* Claims about the request headers.                                       *)
(***************************************************************************)
\* C17, as stated: the header mutations for a fixed target, applied to their
\* own output, yield the header set of the first application.
C17_HeadersIdempotent ==
    (rw.stage = "twice" /\ rw.class = "headers") => rw.twice = rw.once

\* C17, amended: a second application leaves Host, X-Forwarded-For,
\* X-Forwarded-Proto, Origin and every untouched header as the first left
\* them and keeps Accept-Encoding absent; X-Forwarded-Host then holds the
\* target authority the first application wrote into Host; Referer is kept
\* unless the first application left it without a path, which then gets "/".
C17_IdempotentButForwardedHost ==
    (rw.stage = "twice" /\ rw.class = "headers") =>
        LET authority == "localhost:" \o ToString(BenchPort(rw.name))
        IN  /\ \A n \in ReqHeaderNames \ {"x-forwarded-host", "referer"} :
                  rw.twice[n] = rw.once[n]
            /\ rw.twice["accept-encoding"] = None
            /\ rw.once["x-forwarded-host"] = OriginalHost(rw.input)
            /\ rw.twice["x-forwarded-host"] = authority
            /\ rw.twice["referer"] =
                  IF rw.once["referer"] = "http://" \o authority
                  THEN rw.once["referer"] \o "/"
                  ELSE rw.once["referer"]

\* a browser's header set after two applications: the Referer rewritten
\* once, the original Host lost from X-Forwarded-Host
C17_Witness ==
    /\ rw.stage = "twice"
    /\ rw.class = "headers"
    /\ rw.name = "a"
    /\ rw.input["host"] = "localhost:3000"
    /\ rw.input["accept-encoding"] = "gzip"
    /\ rw.input["origin"] # None
    /\ rw.once["referer"] = "http://localhost:4000/proxy/a/page?x=1"
    /\ rw.twice["referer"] = rw.once["referer"]
    /\ rw.once["x-forwarded-host"] = "localhost:3000"
    /\ rw.twice["x-forwarded-host"] = "localhost:4000"

(***************************************************************************)
(* Claims about the CSP meta elements.                                     *)
(***************************************************************************)
\* C18, as stated: the rewritten HTML body has no CSP meta element in the
\* double-quoted or the single-quoted form, however many the document had.
C18_NoCspMetaLeft ==
    (rw.stage \in {"once", "twice"} /\ rw.class = "html") =>
        /\ ~Contains(rw.once, "<meta http-equiv=\"Content-Security-Policy\"")
        /\ ~Contains(rw.once, "<meta http-equiv='Content-Security-Policy'")

=============================================================================
